---- MODULE Spec2Model ----
(***************************************************************************)
(* RoboCopilot chat extension: the UIBuilder panel (ui_builder.py), the    *)
(* task session RoboCopilotChat (robocopilot_chat.py) it owns, the host    *)
(* simulation objects they call (World, LoadButton, ResetButton, the       *)
(* asyncio loop that runs the coroutines started with ensure_future), and  *)
(* the RoboCopilotUI panel (robocopilot_extension.py) with the calls it    *)
(* makes on its sample object.  Spec is the program from construction;     *)
(* SpecUsed runs the same actions from construction or from a state        *)
(* reached by use, in short runs; SpecLog is the execution log as a list   *)
(* object, with the references callers of get_execution_log hold.          *)
(*                                                                         *)
(* A string is a sequence of tokens; a token is one whitespace character   *)
(* or a maximal run of other characters, so that str.strip() and           *)
(* str.split() are computed on it and not assumed.  A text built with an   *)
(* f-string is the concatenation of its literal part and its argument.     *)
(* Timestamps (datetime.now()) are left out of messages and log entries.   *)
(***************************************************************************)
EXTENDS Integers, Sequences, FiniteSets, TLC

\* ---------------------------------------------------------------- bounds
\* Most user actions (clicks and edits of the input field) in one run.
MaxClicks == 3

\* Most list objects allocated, and most entries in one list, in the
\* specification of the log as an object (SpecLog).
MaxLists == 3
MaxLogLen == 2

\* ---------------------------------------------------------------- values
None == "None"
Obj == "obj"

SPACE == " "

\* What the user may type into prompt_input.
Inputs ==
    { <<SPACE>>,
      <<SPACE, "red", SPACE>> }

\* ui_builder.py:187  the field's initial value
InitialInput == <<"Stack", SPACE, "the", SPACE, "cubes", SPACE, "on", SPACE, "top", SPACE, "of", SPACE, "each", SPACE, "other">>

\* ui_builder.py:522  the default instruction
DefaultPrompt == <<"Stack", SPACE, "the", SPACE, "cubes">>

\* str.strip(): drop the leading and the trailing whitespace tokens.
RECURSIVE LStrip(_)
LStrip(s) == IF s # <<>> /\ Head(s) = SPACE THEN LStrip(Tail(s)) ELSE s

RECURSIVE RStrip(_)
RStrip(s) == IF s # <<>> /\ s[Len(s)] = SPACE THEN RStrip(SubSeq(s, 1, Len(s) - 1)) ELSE s

Strip(s) == RStrip(LStrip(s))

\* ---------------------------------------------------------------- state
VARIABLES
    \* UIBuilder
    chat_messages,            \* list of [sender, text]
    current_prompt,
    robocopilot_sample,       \* None or Obj: the reference to the session
    world,                    \* None or Obj: UIBuilder.world
    _post_load_in_progress,
    _scene_setup_successful,
    prompt_input,             \* value of the input field
    scene_status_label,
    status_label,
    execute_enabled,          \* task_ui_elements["Execute Task"].enabled
    reset_enabled,            \* _reset_btn.enabled
    chat_display,             \* what the chat display shows: [label, text] items
    \* RoboCopilotChat: the fields of the session created last
    session,
    \* host
    playing,                  \* the timeline is playing
    callbacks,                \* names of the physics callbacks registered
    loadPc,                   \* LoadButton coroutine: "idle" or "post_load"
    resetPc,                  \* ResetButton coroutine: "idle" or "resetting"
    postLoadTasks,            \* _setup_post_load_async coroutines scheduled
    preResetTasks,            \* setup_pre_reset coroutines scheduled
    execTasks,                \* _execute_task_async coroutines: [pc, prompt, stale]
    groqTasks,                \* _get_groq_response coroutines: their user_message
    \* RoboCopilotUI (robocopilot_extension.py)
    panel,                    \* the fields and widgets of the second panel
    sampleCalls,              \* the calls it has made on self.sample, in order
    panelLoaded,              \* the host template has completed a load for it
    panelTask,                \* the coroutine the panel scheduled last (line 257): "none", "scheduled", "returned", "raised"
    \* history
    postLoadSucceeded,        \* a setup_post_load of the UIBuilder panel has returned True
    clicks,                   \* user actions so far
    lastStep,                 \* how the sim_step callback ended, when the last step taken was a physics step
    \* the execution log as a Python list object (SpecLog)
    lists,                    \* the list objects allocated: lists[id] is the content of object id
    log_ref,                  \* the object self._execution_log refers to
    log_entries               \* the objects get_execution_log has returned to its callers, in order

uiVars == <<chat_messages, current_prompt, robocopilot_sample, world,
            _post_load_in_progress, _scene_setup_successful, prompt_input,
            scene_status_label, status_label, execute_enabled, reset_enabled,
            chat_display>>

hostVars == <<playing, callbacks, loadPc, resetPc, postLoadTasks,
              preResetTasks, execTasks, groqTasks>>

panelVars == <<panel, sampleCalls, panelLoaded, panelTask>>

appVars == <<uiVars, session, hostVars, panelVars, postLoadSucceeded, clicks, lastStep>>

logVars == <<lists, log_ref, log_entries>>

vars == <<appVars, logVars>>

\* ---------------------------------------------------------------- helpers
Msg(sender, text) == [sender |-> sender, text |-> text]

\* An _add_chat_message that puts the message in front.
_add_chat_message_Front(msgs, sender, text) == <<Msg(sender, text)>> \o msgs

\* UIBuilder._add_chat_message: append (the display is redrawn from the list)
_add_chat_message(msgs, sender, text) == Append(msgs, Msg(sender, text))

Robo(msgs, text) == _add_chat_message(msgs, "RoboCopilot", text)

\* The displays show at most this many messages (the slice [-10:]).
DisplayLimit == 10

\* A display that keeps the first messages: msgs[:10]
LastMessages_First(msgs) ==
    SubSeq(msgs, 1, IF Len(msgs) > DisplayLimit THEN DisplayLimit ELSE Len(msgs))

\* The slice self.chat_messages[-10:]
LastMessages(msgs) ==
    SubSeq(msgs, IF Len(msgs) > DisplayLimit THEN Len(msgs) - DisplayLimit + 1 ELSE 1, Len(msgs))

UIWelcome == <<"Welcome to RoboCopilot! Load a scene and enter commands to begin.">>

PanelWelcome == <<"Welcome to RoboCopilot! Enter a command above and click 'Execute Task' to begin.">>

Item(label, text) == [label |-> label, text |-> text]

\* UIBuilder._update_chat_display: the display is emptied and drawn again, the
\* welcome label or one header label and one text label per message.
_update_chat_display(msgs) ==
    IF msgs = <<>> THEN << Item(<<>>, UIWelcome) >>
    ELSE LET shown == LastMessages(msgs) IN
         [i \in 1..Len(shown) |->
             Item(<<IF shown[i].sender = "User" THEN "User" ELSE "RoboCopilot", shown[i].sender>>,
                  shown[i].text)]

\* RoboCopilotUI._update_chat_display
RoboCopilotUI_update_chat_display(msgs) ==
    IF msgs = <<>> THEN << Item(<<>>, PanelWelcome) >>
    ELSE LET shown == LastMessages(msgs) IN
         [i \in 1..Len(shown) |->
             Item(<<IF shown[i].sender = "User" THEN "You" ELSE "RoboCopilot">>,
                  shown[i].text)]

\* Every statement that changes a panel's chat_messages is followed, in the
\* same handler, by a call of its _update_chat_display (_add_chat_message
\* line 274, the stream loop line 508, _on_clear_chat line 572): at the end
\* of the handler the display has been drawn from the list as it is then.
Redrawn(p) == [p EXCEPT !.chat_display = RoboCopilotUI_update_chat_display(p.chat_messages)]

\* RoboCopilotChat._log_message: append one entry
_log_message(log, entry) == Append(log, entry)

\* No coroutine is between two statements of its body (the loop is single-threaded).
Quiet == \A i \in 1..Len(execTasks) : execTasks[i].pc # "entered"

RemoveAt(s, i) == SubSeq(s, 1, i - 1) \o SubSeq(s, i + 1, Len(s))

\* ---------------------------------------------------------------- log texts
\* RoboCopilotChat.setup_scene: the entries of a run that succeeds
SceneLogOk ==
    << <<"Starting custom scene setup...">>, <<"Creating new stage...">>,
       <<"Adding ground plane...">>, <<"Loading Franka robot...">>,
       <<"Creating Franka articulation...">>, <<"Creating cubes...">>,
       <<"Creating cube 0...">>, <<"Creating cube 1...">>,
       <<"Getting World instance...">>, <<"Adding objects to World...">>,
       <<"Adding cube 0 to World...">>, <<"Adding cube 1 to World...">>,
       <<"Scene setup completed with Franka robot and cubes">> >>

SceneError == <<"Error setting up scene: ">>

\* ... and of a run in which loading the robot asset raises (line 59-60)
SceneLogFail ==
    << <<"Starting custom scene setup...">>, <<"Creating new stage...">>,
       <<"Adding ground plane...">>, <<"Loading Franka robot...">>,
       SceneError >>

\* RoboCopilotChat.setup_post_load: entries up to the validation of the robot
PostLoadLogStart ==
    << <<"Starting pickplace controller setup with custom coordinates...">>,
       <<"Importing PickPlaceController...">>,
       <<"PickPlaceController imported successfully">> >>

\* ... from there to the gripper search
PostLoadLogCubes ==
    << <<"Found 2 cubes for stacking">>,
       <<"Cube 0 (cube_red) at position">>, <<"Cube 1 (cube_green) at position">>,
       <<"All objects in scene">>,
       <<"Validated cube in scene: cube_red">>, <<"Validated cube in scene: cube_green">>,
       <<"Finding Franka gripper...">> >>

\* ... from the gripper found to the articulation controller request
PostLoadLogController ==
    << <<"Found gripper">>, <<"Using gripper">>,
       <<"Creating PickPlaceController with custom cube positions...">>,
       <<"PickPlaceController created successfully">>,
       <<"Configuring controller with actual cube coordinates...">>,
       <<"Getting articulation controller...">> >>

\* ... and to the end
PostLoadLogDone ==
    << <<"Articulation controller obtained successfully">>,
       <<"Setting up World observations...">> >>

PostLoadLogTail ==
    << <<"World observations configured">>,
       <<"Stacking controller with custom coordinates initialized successfully">> >>

PostLoadError ==
    << <<"Error setting up stacking controller: ">>, <<"Error type: ">>,
       <<"Full error traceback: ">> >>

ObsError == <<"Error updating observations: ">>

\* ---------------------------------------------------------------- RoboCopilotChat
\* RoboCopilotChat.__init__ (_observations and _obs_logged are attributes the
\* constructor does not create)
NewSession ==
    [ _controller |-> None, _articulation_controller |-> None,
      _execution_log |-> <<>>, _current_status |-> "Ready",
      _franka |-> None, _cubes |-> 0, _world |-> None,
      prompt |-> <<>>, _observations |-> "unset", _obs_logged |-> FALSE ]

LogAll(s, entries) == [s EXCEPT !._execution_log = @ \o entries]

\* A setup_scene that returns failure without logging the error.
setup_scene_Silent(s, ok) ==
    IF ok
    THEN [LogAll(s, SceneLogOk) EXCEPT !._franka = Obj, !._cubes = 2, !._world = Obj]
    ELSE LogAll(s, SubSeq(SceneLogFail, 1, Len(SceneLogFail) - 1))

\* setup_scene: ok is whether the host's scene construction succeeds; the
\* value returned is ok.
setup_scene(s, ok) ==
    IF ok
    THEN [LogAll(s, SceneLogOk) EXCEPT !._franka = Obj, !._cubes = 2, !._world = Obj]
    ELSE LogAll(s, SceneLogFail)

\* _update_observations: obsOk is whether the host's pose queries succeed
_update_observations(s, obsOk) ==
    IF s._franka = None \/ s._cubes = 0 THEN s
    ELSE IF obsOk THEN [s EXCEPT !._observations = "full"]
    ELSE LogAll(s, <<ObsError>>)

\* A cleanup that empties the execution log before its last entry.
world_cleanup_Clearing(p) ==
    [ s |-> [p.s EXCEPT
                !._execution_log = << <<"World cleanup completed">> >>,
                !._controller = None, !._articulation_controller = None,
                !._franka = None, !._cubes = 0, !._observations = "empty",
                !._current_status = "Cleaned up"],
      cb |-> IF p.s._world # None THEN p.cb \ {"sim_step", "observations"} ELSE p.cb ]

\* world_cleanup, on p = [s: session, cb: callbacks of the world]
world_cleanup(p) ==
    [ s |-> [LogAll(p.s, << <<"World cleanup completed">> >>) EXCEPT
                !._controller = None, !._articulation_controller = None,
                !._franka = None, !._cubes = 0, !._observations = "empty",
                !._current_status = "Cleaned up"],
      cb |-> IF p.s._world # None THEN p.cb \ {"sim_step", "observations"} ELSE p.cb ]

\* What the host may answer during setup_post_load: all good, no gripper on
\* the robot, or no articulation controller.
PostLoadOutcomes == {"ok", "gripper", "articulation"}

\* setup_post_load, on p = [s, cb]; the result has ok, the value returned.
setup_post_load(p, outcome, obsOk) ==
    LET s0 == LogAll(p.s, PostLoadLogStart) IN
    IF s0._franka = None \/ s0._cubes < 2 \/ s0._world = None
    THEN [s |-> LogAll(s0, PostLoadError), cb |-> p.cb, ok |-> FALSE]
    ELSE LET s1 == LogAll(s0, PostLoadLogCubes) IN
    IF outcome = "gripper"
    THEN [s |-> LogAll(s1, PostLoadError), cb |-> p.cb, ok |-> FALSE]
    ELSE LET s2 == [LogAll(s1, PostLoadLogController) EXCEPT !._controller = Obj] IN
    IF outcome = "articulation"
    THEN [s |-> LogAll(s2, PostLoadError), cb |-> p.cb, ok |-> FALSE]
    ELSE LET s3 == [LogAll(s2, PostLoadLogDone) EXCEPT
                       !._articulation_controller = Obj, !._observations = "empty"]
             s4 == _update_observations(s3, obsOk)
         IN [s |-> [LogAll(s4, PostLoadLogTail) EXCEPT !._current_status = "Ready for execution"],
             cb |-> p.cb \cup {"observations"}, ok |-> TRUE]

\* str.lower() on a token
Lower(t) ==
    CASE t = "Stack" -> "stack"
      [] t = "Red" -> "red"
      [] OTHER -> t

\* str.split(): the tokens that are not whitespace
Split(str) == SelectSeq(str, LAMBDA t : t # SPACE)

LowerAll(str) == [i \in 1..Len(str) |-> Lower(str[i])]

\* robocopilot_chat.py:306
Colors == {"red", "green", "blue", "yellow", "orange", "purple", "pink", "black",
           "white", "gray", "brown"}

\* extract_colors_simple(prompt): <<pick_color, place_color>>
extract_colors_simple(str) ==
    LET words == Split(LowerAll(str))
        found_colors == SelectSeq(words, LAMBDA w : w \in Colors)
    IN << IF Len(found_colors) > 0 THEN found_colors[1] ELSE None,
          IF Len(found_colors) > 1 THEN found_colors[2] ELSE None >>

\* The function is declared in the class body with one parameter, prompt, and
\* no self (line 304); self.extract_colors_simple(self.prompt) (line 338)
\* passes the instance and the prompt.
ExtractColorsParams == 1
ExtractColorsCallArgs == 2

\* The call raises TypeError when the arguments do not fit the parameters.
ExtractColorsCallRaises == ExtractColorsCallArgs # ExtractColorsParams

\* Keys of the dictionary _update_observations builds (lines 280-298): the
\* robot's name and cube_<index>.
ObservationKeys == { <<"franka">>, <<"cube_", "0">>, <<"cube_", "1">> }

\* The key _on_stacking_physics_step reads (lines 341, 345): cube_<pick_color>
PickKey(str) == <<"cube_", extract_colors_simple(str)[1]>>

StepErrorLog ==
    << <<"Error in stacking physics step: ">>, <<"Error type: ">>,
       <<"Full error traceback: ">> >>

ObsKeysLog ==
    << <<"Available observation keys">>, <<"  franka: keys">>,
       <<"  cube_0: keys">>, <<"  cube_1: keys">> >>

\* What controller.forward may do: return actions, return None, raise.
ForwardOutcomes == {"actions", "none", "raises"}

\* An except branch that leaves the timeline playing.
StepRaised_NoPause(s, pl) ==
    [ s |-> [LogAll(s, StepErrorLog) EXCEPT !._current_status = "Task failed"],
      pl |-> pl,
      result |-> "raised" ]

\* The except branch of _on_stacking_physics_step (lines 362-375)
StepRaised(s, pl) ==
    [ s |-> [LogAll(s, StepErrorLog) EXCEPT !._current_status = "Task failed"],
      pl |-> IF s._world # None THEN FALSE ELSE pl,
      result |-> "raised" ]

\* _on_stacking_physics_step, on p = [s, pl: the timeline is playing]; fwd is
\* what controller.forward does and done what controller.is_done() answers.
\* The result names the way the callback ended.
_on_stacking_physics_step(p, fwd, done) ==
    LET s == p.s IN
    IF s._controller = None \/ s._articulation_controller = None
    THEN [s |-> s, pl |-> p.pl, result |-> "skipped"]
    ELSE IF s._observations # "full"
    THEN [s |-> LogAll(s, << <<"Warning: No custom observations available">> >>),
          pl |-> p.pl, result |-> "no_observations"]
    ELSE
      LET s1 == IF s._obs_logged THEN s
                ELSE [LogAll(s, ObsKeysLog) EXCEPT !._obs_logged = TRUE]
      IN IF ExtractColorsCallRaises \/ PickKey(s1.prompt) \notin ObservationKeys
            \/ fwd = "raises"
         THEN StepRaised(s1, p.pl)
         ELSE IF fwd = "none"
         THEN [s |-> LogAll(s1, << <<"Warning: No actions received from controller">> >>),
               pl |-> p.pl, result |-> "no_actions"]
         ELSE IF done
         THEN [s |-> [LogAll(s1, << <<"Stacking task completed successfully!">> >>)
                        EXCEPT !._current_status = "Task completed"],
               pl |-> FALSE, result |-> "completed"]
         ELSE [s |-> s1, pl |-> p.pl, result |-> "applied"]

\* A pre-reset that also drops the controller and the articulation controller.
setup_pre_reset_Clearing(p, resetOk) ==
    LET cb == IF p.s._world # None THEN p.cb \ {"sim_step", "observations"} ELSE p.cb IN
    [s |-> [LogAll(p.s, << <<"System reset">> >>) EXCEPT
               !._current_status = "Reset completed",
               !._controller = None, !._articulation_controller = None],
     cb |-> cb]

\* setup_pre_reset, on p = [s, cb]; resetOk is whether controller.reset() returns
setup_pre_reset(p, resetOk) ==
    LET cb == IF p.s._world # None THEN p.cb \ {"sim_step", "observations"} ELSE p.cb IN
    IF p.s._controller # None /\ ~resetOk
    THEN [s |-> LogAll(p.s, << <<"Error in pre-reset: ">> >>), cb |-> cb]
    ELSE [s |-> [LogAll(p.s, << <<"System reset">> >>) EXCEPT !._current_status = "Reset completed"],
          cb |-> cb]

\* A clear of the log that also puts the status back to 'Ready'.
clear_execution_log_Resetting(s) ==
    [s EXCEPT !._execution_log = << <<"Execution log cleared">> >>, !._current_status = "Ready"]

\* A clear that logs its entry without emptying the log first.
clear_execution_log_Appending(s) ==
    [s EXCEPT !._execution_log = Append(@, <<"Execution log cleared">>)]

\* clear_execution_log
clear_execution_log(s) == [s EXCEPT !._execution_log = << <<"Execution log cleared">> >>]

\* ---------------------------------------------------------------- host inputs
\* Whether the host's pose queries in _update_observations succeed.
PoseQueryOutcomes == {TRUE}

\* What a streamed completion delivers: the content of each chunk (None for a
\* chunk without content).
GroqStreams == { <<"Sure">>, <<None, "Sure", "!">> }

\* The longest stream of GroqStreams.
MaxChunks == 3

\* No physics step was the last step taken.
NoStep == [result |-> "none", fwd |-> "none", done |-> FALSE, executing |-> FALSE]

\* A panel whose Execute Task button is built enabled.
_build_task_controls_Enabled == [status_label |-> "Ready", execute_enabled |-> TRUE]

\* UIBuilder._build_task_controls: the status display and the Execute Task
\* button as built
_build_task_controls == [status_label |-> "Ready", execute_enabled |-> FALSE]

\* RoboCopilotUI.__init__, build_chat_interface (line 105) and
\* build_task_controls_ui (lines 120-124, 137)
NewPanel ==
    [ chat_messages |-> <<>>, current_prompt |-> <<>>,
      prompt_input |-> InitialInput,
      status_label |-> "Ready",
      execute_enabled |-> FALSE,
      chat_display |-> RoboCopilotUI_update_chat_display(<<>>) ]

\* ---------------------------------------------------------------- Init
Init ==
    /\ chat_messages = <<>>
    /\ current_prompt = <<>>
    /\ robocopilot_sample = None
    /\ world = None
    /\ _post_load_in_progress = FALSE
    /\ _scene_setup_successful = FALSE
    /\ prompt_input = InitialInput
    /\ scene_status_label = "Scene not loaded"
    /\ status_label = _build_task_controls.status_label
    /\ execute_enabled = _build_task_controls.execute_enabled
    /\ reset_enabled = FALSE
    /\ chat_display = _update_chat_display(chat_messages)
    /\ session = NewSession
    /\ playing = FALSE
    /\ callbacks = {}
    /\ loadPc = "idle"
    /\ resetPc = "idle"
    /\ postLoadTasks = 0
    /\ preResetTasks = 0
    /\ execTasks = <<>>
    /\ groqTasks = <<>>
    /\ panel = NewPanel
    /\ sampleCalls = <<>>
    /\ panelLoaded = FALSE
    /\ panelTask = "none"
    /\ postLoadSucceeded = FALSE
    /\ clicks = 0
    /\ lastStep = NoStep
    /\ lists = << <<>> >>
    /\ log_ref = 1
    /\ log_entries = <<>>

\* ---------------------------------------------------------------- UIBuilder
\* The user edits the input field.
SetInput(v) ==
    /\ clicks < MaxClicks
    /\ Quiet
    /\ v # prompt_input
    /\ prompt_input' = v
    /\ UNCHANGED logVars
    /\ lastStep' = NoStep
    /\ clicks' = clicks + 1
    /\ UNCHANGED <<panelVars, postLoadSucceeded>>
    /\ UNCHANGED <<chat_messages, current_prompt, robocopilot_sample, world,
                   _post_load_in_progress, _scene_setup_successful,
                   scene_status_label, status_label, execute_enabled, reset_enabled,
                   chat_display, session, hostVars>>

\* A coroutine awaiting play_async belongs to the session it was started on.
MarkStale(tasks) == [i \in 1..Len(tasks) |-> [tasks[i] EXCEPT !.stale = TRUE]]

\* A load that always creates a session.
SessionForLoad_Fresh(sample, s) == NewSession

\* _setup_scene lines 283-284: a session is created when none is referenced
SessionForLoad(sample, s) == IF sample = None THEN NewSession ELSE s

\* A _setup_scene that does not reset _scene_setup_successful at its entry
\* (line 280): a failed setup leaves the flag as it was.
LoadClick_FlagKept(ok, follow) ==
    LET creating == robocopilot_sample = None
        s0 == SessionForLoad(robocopilot_sample, session)
        chat1 == IF creating THEN Robo(chat_messages, <<"Creating RoboCopilot sample...">>)
                 ELSE chat_messages
        chat2 == Robo(chat1, <<"Setting up scene...">>)
    IN
    /\ clicks < MaxClicks
    /\ Quiet
    /\ loadPc = "idle"
    /\ playing' = FALSE
    /\ callbacks' = {}
    /\ session' = setup_scene(s0, ok)
    /\ IF ok
       THEN /\ robocopilot_sample' = Obj
            /\ world' = Obj
            /\ _scene_setup_successful' = TRUE
            /\ scene_status_label' = "Scene setup completed"
            /\ chat_messages' = Robo(chat2, <<"Scene created successfully...">>)
       ELSE /\ robocopilot_sample' = None
            /\ world' = world
            /\ _scene_setup_successful' = _scene_setup_successful
            /\ scene_status_label' = "Scene setup failed: Failed to setup scene"
            /\ chat_messages' = Robo(chat2, <<"Error setting up scene: ", "Failed to setup scene">>)
    /\ loadPc' = IF ok \/ follow THEN "post_load" ELSE "idle"
    /\ execTasks' = IF creating THEN MarkStale(execTasks) ELSE execTasks
    /\ preResetTasks' = IF creating THEN 0 ELSE preResetTasks
    /\ chat_display' = _update_chat_display(chat_messages')
    /\ UNCHANGED logVars
    /\ lastStep' = NoStep
    /\ clicks' = clicks + 1
    /\ UNCHANGED <<panelVars, postLoadSucceeded>>
    /\ UNCHANGED <<current_prompt, _post_load_in_progress, prompt_input, status_label,
                   execute_enabled, reset_enabled, resetPc, postLoadTasks, groqTasks>>

\* Load Scene: the LoadButton makes a new World (stopped, no callbacks) and
\* calls _setup_scene.  ok: the scene construction succeeds.  follow: the
\* button goes on to the post-load callback after _setup_scene raised.
LoadClick(ok, follow) ==
    LET creating == robocopilot_sample = None
        s0 == SessionForLoad(robocopilot_sample, session)
        chat1 == IF creating THEN Robo(chat_messages, <<"Creating RoboCopilot sample...">>)
                 ELSE chat_messages
        chat2 == Robo(chat1, <<"Setting up scene...">>)
    IN
    /\ clicks < MaxClicks
    /\ Quiet
    /\ loadPc = "idle"
    /\ playing' = FALSE
    /\ callbacks' = {}
    /\ session' = setup_scene(s0, ok)
    /\ IF ok
       THEN /\ robocopilot_sample' = Obj
            /\ world' = Obj
            /\ _scene_setup_successful' = TRUE
            /\ scene_status_label' = "Scene setup completed"
            /\ chat_messages' = Robo(chat2, <<"Scene created successfully...">>)
       ELSE /\ robocopilot_sample' = None
            /\ world' = world
            /\ _scene_setup_successful' = FALSE
            /\ scene_status_label' = "Scene setup failed: Failed to setup scene"
            /\ chat_messages' = Robo(chat2, <<"Error setting up scene: ", "Failed to setup scene">>)
    /\ loadPc' = IF ok \/ follow THEN "post_load" ELSE "idle"
    /\ execTasks' = IF creating THEN MarkStale(execTasks) ELSE execTasks
    /\ preResetTasks' = IF creating THEN 0 ELSE preResetTasks
    /\ chat_display' = _update_chat_display(chat_messages')
    /\ UNCHANGED logVars
    /\ lastStep' = NoStep
    /\ clicks' = clicks + 1
    /\ UNCHANGED <<panelVars, postLoadSucceeded>>
    /\ UNCHANGED <<current_prompt, _post_load_in_progress, prompt_input, status_label,
                   execute_enabled, reset_enabled, resetPc, postLoadTasks, groqTasks>>

\* The LoadButton calls _setup_post_load.
PostLoadCallback ==
    /\ Quiet
    /\ loadPc = "post_load"
    /\ loadPc' = "idle"
    /\ IF ~_scene_setup_successful
       THEN /\ chat_messages' = Robo(chat_messages, <<"Scene setup was not successful, skipping post-load...">>)
            /\ UNCHANGED <<_post_load_in_progress, postLoadTasks>>
       ELSE IF _post_load_in_progress
       THEN /\ chat_messages' = Robo(chat_messages, <<"Post-load already in progress, skipping...">>)
            /\ UNCHANGED <<_post_load_in_progress, postLoadTasks>>
       ELSE IF robocopilot_sample = None
       THEN /\ chat_messages' = Robo(chat_messages, <<"RoboCopilot sample not initialized, skipping post-load...">>)
            /\ UNCHANGED <<_post_load_in_progress, postLoadTasks>>
       ELSE /\ _post_load_in_progress' = TRUE
            /\ chat_messages' = Robo(chat_messages, <<"Starting post-load setup...">>)
            /\ postLoadTasks' = postLoadTasks + 1
    /\ chat_display' = _update_chat_display(chat_messages')
    /\ UNCHANGED logVars
    /\ lastStep' = NoStep
    /\ UNCHANGED <<clicks, panelVars, postLoadSucceeded>>
    /\ UNCHANGED <<current_prompt, robocopilot_sample, world, _scene_setup_successful,
                   prompt_input, scene_status_label, status_label, execute_enabled,
                   reset_enabled, session, playing, callbacks, resetPc, preResetTasks,
                   execTasks, groqTasks>>

\* The loop runs a scheduled _setup_post_load_async (it has no await that
\* suspends: setup_post_load runs to its end).
PostLoadAsync(outcome, obsOk) ==
    /\ Quiet
    /\ postLoadTasks > 0
    /\ postLoadTasks' = postLoadTasks - 1
    /\ _post_load_in_progress' = FALSE
    /\ IF robocopilot_sample = None
       THEN /\ scene_status_label' = "Controller setup failed: RoboCopilot sample not initialized"
            /\ chat_messages' =
                 Robo(Robo(chat_messages, <<"Error in controller setup: ", "RoboCopilot sample not initialized">>),
                      <<"Post-load setup completed.">>)
            /\ UNCHANGED <<session, callbacks, reset_enabled, execute_enabled,
                           postLoadSucceeded>>
       ELSE LET chat1 == Robo(chat_messages, <<"Setting up controllers...">>)
                r == setup_post_load([s |-> session, cb |-> callbacks], outcome, obsOk)
                c == world_cleanup([s |-> r.s, cb |-> r.cb])
            IN IF r.ok
               THEN /\ session' = r.s
                    /\ callbacks' = r.cb
                    /\ scene_status_label' = "Scene loaded successfully"
                    /\ reset_enabled' = TRUE
                    /\ execute_enabled' = TRUE
                    /\ postLoadSucceeded' = TRUE
                    /\ chat_messages' =
                         Robo(Robo(chat1, <<"Scene loaded successfully! Ready to execute tasks.">>),
                              <<"Post-load setup completed.">>)
               ELSE /\ session' = c.s
                    /\ callbacks' = c.cb
                    /\ scene_status_label' = "Controller setup failed: Failed to setup controllers"
                    /\ chat_messages' =
                         Robo(Robo(chat1, <<"Error in controller setup: ", "Failed to setup controllers">>),
                              <<"Post-load setup completed.">>)
                    /\ UNCHANGED <<reset_enabled, execute_enabled, postLoadSucceeded>>
    /\ chat_display' = _update_chat_display(chat_messages')
    /\ UNCHANGED logVars
    /\ lastStep' = NoStep
    /\ UNCHANGED <<clicks, panelVars>>
    /\ UNCHANGED <<current_prompt, robocopilot_sample, world, _scene_setup_successful,
                   prompt_input, status_label, playing, loadPc, resetPc, preResetTasks,
                   execTasks, groqTasks>>

\* An execute handler without the default instruction.
ExecutePrompt_NoDefault(input) == Strip(input)

\* Execute Task clicked: _on_execute_task
ExecutePrompt(input) == IF Strip(input) = <<>> THEN DefaultPrompt ELSE Strip(input)

ExecuteClick ==
    LET p == ExecutePrompt(prompt_input) IN
    /\ clicks < MaxClicks
    /\ Quiet
    /\ execute_enabled
    /\ IF robocopilot_sample = None
       THEN /\ chat_messages' = Robo(chat_messages, <<"Please load the scene first!">>)
            /\ UNCHANGED <<current_prompt, status_label, execute_enabled, execTasks>>
       ELSE IF world = None
       THEN /\ chat_messages' = Robo(chat_messages, <<"World not initialized. Please load the world first!">>)
            /\ UNCHANGED <<current_prompt, status_label, execute_enabled, execTasks>>
       ELSE /\ current_prompt' = p
            /\ chat_messages' = Robo(_add_chat_message(chat_messages, "User", p),
                                     <<"Executing task: ">> \o p)
            /\ status_label' = "Executing Task..."
            /\ execute_enabled' = FALSE
            /\ execTasks' = Append(execTasks, [pc |-> "scheduled", prompt |-> p, stale |-> FALSE])
    /\ chat_display' = _update_chat_display(chat_messages')
    /\ UNCHANGED logVars
    /\ lastStep' = NoStep
    /\ clicks' = clicks + 1
    /\ UNCHANGED <<panelVars, postLoadSucceeded>>
    /\ UNCHANGED <<robocopilot_sample, world, _post_load_in_progress,
                   _scene_setup_successful, prompt_input, scene_status_label,
                   reset_enabled, session, playing, callbacks, loadPc, resetPc,
                   postLoadTasks, preResetTasks, groqTasks>>

\* The except branch of _execute_task_async (lines 561-567)
ExecuteFailedUI ==
    /\ execute_enabled' = TRUE
    /\ status_label' = "Task Failed"
    /\ chat_messages' = Robo(chat_messages, <<"Task failed: ">>)
    /\ chat_display' = _update_chat_display(chat_messages')

\* The except branch of _on_execute_task_async (lines 400-403)
ExecuteFailedSession(s) ==
    [LogAll(s, << <<"Error executing stacking task: ">> >>) EXCEPT !._current_status = "Task failed"]

\* The loop starts a scheduled _execute_task_async: it calls the session's
\* _on_execute_task_async, which runs lines 380-382.
ExecBegin(i) ==
    /\ Quiet
    /\ i \in 1..Len(execTasks)
    /\ execTasks[i].pc = "scheduled"
    /\ IF robocopilot_sample = None
       THEN /\ ExecuteFailedUI
            /\ execTasks' = RemoveAt(execTasks, i)
            /\ UNCHANGED session
       ELSE /\ session' = [LogAll(session, << <<"Executing stacking task: ">> \o execTasks[i].prompt >>)
                             EXCEPT !._current_status = "Executing task...",
                                    !.prompt = execTasks[i].prompt]
            /\ execTasks' = [execTasks EXCEPT ![i].pc = "entered"]
            /\ UNCHANGED <<execute_enabled, status_label, chat_messages, chat_display>>
    /\ UNCHANGED logVars
    /\ lastStep' = NoStep
    /\ UNCHANGED <<clicks, panelVars, postLoadSucceeded>>
    /\ UNCHANGED <<current_prompt, robocopilot_sample, world, _post_load_in_progress,
                   _scene_setup_successful, prompt_input, scene_status_label,
                   reset_enabled, playing, callbacks, loadPc, resetPc, postLoadTasks,
                   preResetTasks, groqTasks>>

\* _on_execute_task_async goes on without suspending: lines 384-398, up to
\* the await of play_async.  resetOk: controller.reset() returns.
ExecChecks(i, resetOk) ==
    /\ i \in 1..Len(execTasks)
    /\ execTasks[i].pc = "entered"
    /\ IF session._world = None \/ session._controller = None \/ ~resetOk
       THEN /\ session' = ExecuteFailedSession(session)
            /\ ExecuteFailedUI
            /\ execTasks' = RemoveAt(execTasks, i)
            /\ UNCHANGED <<callbacks, playing>>
       ELSE /\ session' = LogAll(session, << <<"Controller reset completed">> >>)
            /\ callbacks' = callbacks \cup {"sim_step"}
            /\ playing' = TRUE
            /\ execTasks' = [execTasks EXCEPT ![i].pc = "playing"]
            /\ UNCHANGED <<execute_enabled, status_label, chat_messages, chat_display>>
    /\ UNCHANGED logVars
    /\ lastStep' = NoStep
    /\ UNCHANGED <<clicks, panelVars, postLoadSucceeded>>
    /\ UNCHANGED <<current_prompt, robocopilot_sample, world, _post_load_in_progress,
                   _scene_setup_successful, prompt_input, scene_status_label,
                   reset_enabled, loadPc, resetPc, postLoadTasks, preResetTasks,
                   groqTasks>>

\* play_async returns (ok) or raises, and _execute_task_async finishes.
ExecFinish(i, ok) ==
    /\ Quiet
    /\ i \in 1..Len(execTasks)
    /\ execTasks[i].pc = "playing"
    /\ execTasks' = RemoveAt(execTasks, i)
    /\ IF ok
       THEN /\ execute_enabled' = TRUE
            /\ status_label' = "Task Completed"
            /\ chat_messages' = Robo(chat_messages, <<"Task completed successfully!">>)
            /\ chat_display' = _update_chat_display(chat_messages')
            /\ UNCHANGED session
       ELSE /\ ExecuteFailedUI
            /\ session' = IF execTasks[i].stale THEN session ELSE ExecuteFailedSession(session)
    /\ UNCHANGED logVars
    /\ lastStep' = NoStep
    /\ UNCHANGED <<clicks, panelVars, postLoadSucceeded>>
    /\ UNCHANGED <<current_prompt, robocopilot_sample, world, _post_load_in_progress,
                   _scene_setup_successful, prompt_input, scene_status_label,
                   reset_enabled, playing, callbacks, loadPc, resetPc, postLoadTasks,
                   preResetTasks, groqTasks>>

\* Reset Scene clicked: the ResetButton calls _pre_reset, then resets the world.
ResetClick ==
    /\ clicks < MaxClicks
    /\ Quiet
    /\ reset_enabled
    /\ resetPc = "idle"
    /\ resetPc' = "resetting"
    /\ preResetTasks' = IF robocopilot_sample # None THEN preResetTasks + 1 ELSE preResetTasks
    /\ UNCHANGED logVars
    /\ lastStep' = NoStep
    /\ clicks' = clicks + 1
    /\ UNCHANGED <<panelVars, postLoadSucceeded>>
    /\ UNCHANGED <<uiVars, session, playing, callbacks, loadPc, postLoadTasks,
                   execTasks, groqTasks>>

\* The loop runs a scheduled setup_pre_reset.
PreResetAsync(resetOk) ==
    /\ Quiet
    /\ preResetTasks > 0
    /\ preResetTasks' = preResetTasks - 1
    /\ LET r == setup_pre_reset([s |-> session, cb |-> callbacks], resetOk)
       IN /\ session' = r.s
          /\ callbacks' = r.cb
    /\ UNCHANGED logVars
    /\ lastStep' = NoStep
    /\ UNCHANGED <<clicks, panelVars, postLoadSucceeded>>
    /\ UNCHANGED <<uiVars, playing, loadPc, resetPc, postLoadTasks, execTasks,
                   groqTasks>>

\* The world has been reset and paused; the ResetButton calls _post_reset.
PostReset ==
    /\ Quiet
    /\ resetPc = "resetting"
    /\ resetPc' = "idle"
    /\ playing' = FALSE
    /\ scene_status_label' = "Scene reset"
    /\ chat_messages' = Robo(chat_messages, <<"Scene reset successfully.">>)
    /\ chat_display' = _update_chat_display(chat_messages')
    /\ UNCHANGED logVars
    /\ lastStep' = NoStep
    /\ UNCHANGED <<clicks, panelVars, postLoadSucceeded>>
    /\ UNCHANGED <<current_prompt, robocopilot_sample, world, _post_load_in_progress,
                   _scene_setup_successful, prompt_input, status_label, execute_enabled,
                   reset_enabled, session, callbacks, loadPc, postLoadTasks,
                   preResetTasks, execTasks, groqTasks>>

\* Clear Scene clicked: _on_clear_scene
ClearScene ==
    LET chat1 == IF world # None /\ playing
                 THEN Robo(chat_messages, <<"Stopping simulation...">>) ELSE chat_messages
        c == IF robocopilot_sample # None
             THEN world_cleanup([s |-> session, cb |-> callbacks])
             ELSE [s |-> session, cb |-> callbacks]
        chat2 == IF robocopilot_sample # None
                 THEN Robo(chat1, <<"Cleaning up RoboCopilot sample...">>) ELSE chat1
        chat3 == IF world # None THEN Robo(chat2, <<"Clearing world...">>) ELSE chat2
    IN
    /\ clicks < MaxClicks
    /\ Quiet
    /\ _post_load_in_progress' = FALSE
    /\ playing' = FALSE
    /\ session' = c.s
    /\ callbacks' = IF world # None THEN c.cb \ {"sim_step"} ELSE c.cb
    /\ world' = None
    /\ scene_status_label' = "Scene cleared"
    /\ reset_enabled' = FALSE
    /\ execute_enabled' = FALSE
    /\ status_label' = "Ready"
    /\ chat_messages' = Robo(Robo(chat3, <<"Creating new empty stage...">>),
                             <<"Scene cleared successfully. Ready to load a new scene.">>)
    /\ chat_display' = _update_chat_display(chat_messages')
    /\ UNCHANGED logVars
    /\ lastStep' = NoStep
    /\ clicks' = clicks + 1
    /\ UNCHANGED <<panelVars, postLoadSucceeded>>
    /\ UNCHANGED <<current_prompt, robocopilot_sample, _scene_setup_successful,
                   prompt_input, loadPc, resetPc, postLoadTasks, preResetTasks,
                   execTasks, groqTasks>>

\* Send clicked with a prompt that is not empty: _on_send_message (with an
\* empty or blank field the handler does nothing)
SendMessage ==
    LET p == Strip(prompt_input) IN
    /\ clicks < MaxClicks
    /\ Quiet
    /\ p # <<>>
    /\ chat_messages' = _add_chat_message(chat_messages, "User", p)
    /\ prompt_input' = <<>>
    /\ groqTasks' = Append(groqTasks, p)
    /\ chat_display' = _update_chat_display(chat_messages')
    /\ UNCHANGED logVars
    /\ lastStep' = NoStep
    /\ clicks' = clicks + 1
    /\ UNCHANGED <<panelVars, postLoadSucceeded>>
    /\ UNCHANGED <<current_prompt, robocopilot_sample, world, _post_load_in_progress,
                   _scene_setup_successful, scene_status_label, status_label,
                   execute_enabled, reset_enabled, session, playing, callbacks, loadPc,
                   resetPc, postLoadTasks, preResetTasks, execTasks>>

\* full_response after the chunks: the contents that are not None, in order
RECURSIVE FullResponse(_)
FullResponse(chunks) ==
    IF chunks = <<>> THEN <<>>
    ELSE IF Head(chunks) = None THEN FullResponse(Tail(chunks))
    ELSE <<Head(chunks)>> \o FullResponse(Tail(chunks))

\* A stream loop that writes the response into the first message.
RECURSIVE StreamInto_First(_, _, _)
StreamInto_First(msgs, chunks, full_response) ==
    IF chunks = <<>> THEN msgs
    ELSE IF Head(chunks) = None THEN StreamInto_First(msgs, Tail(chunks), full_response)
    ELSE LET full == full_response \o <<Head(chunks)>>
         IN StreamInto_First([msgs EXCEPT ![1].text = full], Tail(chunks), full)

\* The stream loop of _get_groq_response (lines 502-508): every chunk with a
\* content rewrites the text of the last message.
RECURSIVE StreamInto(_, _, _)
StreamInto(msgs, chunks, full_response) ==
    IF chunks = <<>> THEN msgs
    ELSE IF Head(chunks) = None THEN StreamInto(msgs, Tail(chunks), full_response)
    ELSE LET full == full_response \o <<Head(chunks)>>
         IN StreamInto([msgs EXCEPT ![Len(msgs)].text = full], Tail(chunks), full)

\* A _get_groq_response whose except branch only prints: a request that
\* fails adds no message to the chat.
GroqResponse_Silent(fails, chunks, received) ==
    /\ Quiet
    /\ groqTasks # <<>>
    /\ received \in 0..Len(chunks)
    /\ groqTasks' = Tail(groqTasks)
    /\ IF fails
       THEN /\ chat_messages' = chat_messages
            /\ UNCHANGED current_prompt
       ELSE LET streamed == StreamInto(Robo(chat_messages, <<>>), SubSeq(chunks, 1, received), <<>>)
            IN IF received = Len(chunks)
               THEN /\ chat_messages' = streamed
                    /\ current_prompt' = Head(groqTasks)
               ELSE /\ chat_messages' = Robo(streamed, <<"Error getting AI response: ">>)
                    /\ UNCHANGED current_prompt
    /\ chat_display' = _update_chat_display(chat_messages')
    /\ UNCHANGED logVars
    /\ lastStep' = NoStep
    /\ UNCHANGED <<clicks, panelVars, postLoadSucceeded>>
    /\ UNCHANGED <<robocopilot_sample, world, _post_load_in_progress,
                   _scene_setup_successful, prompt_input, scene_status_label,
                   status_label, execute_enabled, reset_enabled, session, playing,
                   callbacks, loadPc, resetPc, postLoadTasks, preResetTasks, execTasks>>

\* The loop runs the oldest scheduled _get_groq_response; it does not suspend.
\* fails: the client is missing or the request raises (lines 484-493).
\* received: the chunks delivered before the iteration ends; with fewer than
\* Len(chunks) the iteration raises after them.
GroqResponse(fails, chunks, received) ==
    /\ Quiet
    /\ groqTasks # <<>>
    /\ received \in 0..Len(chunks)
    /\ groqTasks' = Tail(groqTasks)
    /\ IF fails
       THEN /\ chat_messages' = Robo(chat_messages, <<"Error getting AI response: ">>)
            /\ UNCHANGED current_prompt
       ELSE LET streamed == StreamInto(Robo(chat_messages, <<>>), SubSeq(chunks, 1, received), <<>>)
            IN IF received = Len(chunks)
               THEN /\ chat_messages' = streamed
                    /\ current_prompt' = Head(groqTasks)
               ELSE /\ chat_messages' = Robo(streamed, <<"Error getting AI response: ">>)
                    /\ UNCHANGED current_prompt
    /\ chat_display' = _update_chat_display(chat_messages')
    /\ UNCHANGED logVars
    /\ lastStep' = NoStep
    /\ UNCHANGED <<clicks, panelVars, postLoadSucceeded>>
    /\ UNCHANGED <<robocopilot_sample, world, _post_load_in_progress,
                   _scene_setup_successful, prompt_input, scene_status_label,
                   status_label, execute_enabled, reset_enabled, session, playing,
                   callbacks, loadPc, resetPc, postLoadTasks, preResetTasks, execTasks>>

\* Clear Chat clicked: _on_clear_chat
ClearChat ==
    /\ clicks < MaxClicks
    /\ Quiet
    /\ chat_messages' = Robo(<<>>, <<"Chat history cleared. Ready for new commands!">>)
    /\ session' = IF robocopilot_sample # None THEN clear_execution_log(session) ELSE session
    /\ chat_display' = _update_chat_display(chat_messages')
    /\ UNCHANGED logVars
    /\ lastStep' = NoStep
    /\ clicks' = clicks + 1
    /\ UNCHANGED <<panelVars, postLoadSucceeded>>
    /\ UNCHANGED <<current_prompt, robocopilot_sample, world, _post_load_in_progress,
                   _scene_setup_successful, prompt_input, scene_status_label,
                   status_label, execute_enabled, reset_enabled, hostVars>>

\* ---------------------------------------------------------------- RoboCopilotUI
\* The second panel is built on the host's sample template, which owns the
\* Load, Reset and Clear buttons and calls the post_*_button_event hooks; its
\* sample object is called through self.sample and recorded in sampleCalls.
Call(fn, arg) == [fn |-> fn, arg |-> arg]

\* The user edits the panel's input field.
PanelSetInput(v) ==
    /\ clicks < MaxClicks
    /\ Quiet
    /\ v # panel.prompt_input
    /\ panel' = [panel EXCEPT !.prompt_input = v]
    /\ UNCHANGED logVars
    /\ lastStep' = NoStep
    /\ clicks' = clicks + 1
    /\ UNCHANGED <<uiVars, session, hostVars, sampleCalls, panelLoaded, panelTask, postLoadSucceeded>>

\* RoboCopilotUI._on_send_message with a prompt that is not blank (the field
\* keeps its value)
PanelSend ==
    LET p == Strip(panel.prompt_input) IN
    /\ clicks < MaxClicks
    /\ Quiet
    /\ p # <<>>
    /\ panel' = Redrawn([panel EXCEPT
                   !.chat_messages =
                       Robo(_add_chat_message(@, "User", p),
                            <<"Command received: '">> \o p
                              \o <<"'. Click 'Execute Task' to run the stacking operation.">>),
                   !.current_prompt = p])
    /\ UNCHANGED logVars
    /\ lastStep' = NoStep
    /\ clicks' = clicks + 1
    /\ UNCHANGED <<uiVars, session, hostVars, sampleCalls, panelLoaded, panelTask, postLoadSucceeded>>

\* RoboCopilotUI._on_execute_task_event
PanelExecute ==
    LET p == ExecutePrompt(panel.prompt_input) IN
    /\ clicks < MaxClicks
    /\ Quiet
    /\ panel.execute_enabled
    /\ panel' = Redrawn([panel EXCEPT
                   !.current_prompt = p,
                   !.chat_messages = Robo(_add_chat_message(@, "User", p),
                                          <<"Executing task: ">> \o p),
                   !.status_label = "Executing Task...",
                   !.execute_enabled = FALSE])
    /\ sampleCalls' = sampleCalls \o << Call("_on_execute_task_async", p),
                                        Call("add_log_entry", <<"User command: ">> \o p) >>
    /\ UNCHANGED logVars
    /\ lastStep' = NoStep
    /\ clicks' = clicks + 1
    /\ panelTask' = "scheduled"
    /\ UNCHANGED <<uiVars, session, hostVars, panelLoaded, postLoadSucceeded>>

\* RoboCopilotUI._on_clear_chat
PanelClearChat ==
    /\ clicks < MaxClicks
    /\ Quiet
    /\ panel' = Redrawn([panel EXCEPT
                   !.chat_messages = Robo(<<>>, <<"Chat history cleared. Ready for new commands!">>)])
    /\ sampleCalls' = Append(sampleCalls, Call("clear_execution_log", <<>>))
    /\ UNCHANGED logVars
    /\ lastStep' = NoStep
    /\ clicks' = clicks + 1
    /\ UNCHANGED <<uiVars, session, hostVars, panelLoaded, panelTask, postLoadSucceeded>>

\* What self.sample.get_task_status() and the last entry of
\* self.sample.get_execution_log() may be (<<>>: the log is empty).
TaskStatuses == {"Ready", "Task failed"}
LatestEntries == { <<>>, <<"System reset">> }

\* RoboCopilotUI._on_refresh_status
PanelRefresh(status, latest_entry) ==
    /\ clicks < MaxClicks
    /\ Quiet
    /\ panel' = Redrawn([panel EXCEPT
                   !.status_label = status,
                   !.chat_messages = IF latest_entry # <<>>
                                     THEN Robo(@, <<"Status update: ">> \o latest_entry)
                                     ELSE @])
    /\ sampleCalls' = sampleCalls \o << Call("get_task_status", <<>>),
                                        Call("get_execution_log", <<>>) >>
    /\ UNCHANGED logVars
    /\ lastStep' = NoStep
    /\ clicks' = clicks + 1
    /\ UNCHANGED <<uiVars, session, hostVars, panelLoaded, panelTask, postLoadSucceeded>>

\* RoboCopilotUI.post_load_button_event: the template calls it when its load
\* has completed (and then enables its Reset button).
post_load_button_event ==
    /\ clicks < MaxClicks
    /\ Quiet
    /\ panel' = Redrawn([panel EXCEPT
                   !.execute_enabled = TRUE,
                   !.status_label = "Ready",
                   !.chat_messages = Robo(@, <<"Scene loaded successfully. Ready to execute tasks!">>)])
    /\ panelLoaded' = TRUE
    /\ UNCHANGED logVars
    /\ lastStep' = NoStep
    /\ clicks' = clicks + 1
    /\ UNCHANGED <<uiVars, session, hostVars, sampleCalls, panelTask, postLoadSucceeded>>

\* RoboCopilotUI.post_reset_button_event: the template calls it when a reset
\* has completed; its Reset button is enabled once a load has completed.
post_reset_button_event ==
    /\ clicks < MaxClicks
    /\ Quiet
    /\ panelLoaded
    /\ panel' = Redrawn([panel EXCEPT
                   !.execute_enabled = TRUE,
                   !.status_label = "Ready",
                   !.chat_messages = Robo(@, <<"System reset complete. Ready for new tasks!">>)])
    /\ UNCHANGED logVars
    /\ lastStep' = NoStep
    /\ clicks' = clicks + 1
    /\ UNCHANGED <<uiVars, session, hostVars, sampleCalls, panelLoaded, panelTask, postLoadSucceeded>>

\* RoboCopilotUI.post_clear_button_event
post_clear_button_event ==
    /\ clicks < MaxClicks
    /\ Quiet
    /\ panel' = Redrawn([panel EXCEPT
                   !.execute_enabled = FALSE,
                   !.status_label = "Scene Cleared",
                   !.chat_messages = Robo(@, <<"Scene cleared. Please load a scene to continue.">>)])
    /\ UNCHANGED logVars
    /\ lastStep' = NoStep
    /\ clicks' = clicks + 1
    /\ UNCHANGED <<uiVars, session, hostVars, sampleCalls, panelLoaded, panelTask, postLoadSucceeded>>

\* The loop runs the coroutine the panel scheduled with ensure_future at
\* line 257; ok: it returns, else it raises.  The panel does not await it
\* and has registered nothing that is called when it ends.
SampleTaskEnds(ok) ==
    /\ Quiet
    /\ panelTask = "scheduled"
    /\ panelTask' = IF ok THEN "returned" ELSE "raised"
    /\ UNCHANGED logVars
    /\ lastStep' = NoStep
    /\ UNCHANGED <<uiVars, session, hostVars, panel, sampleCalls, panelLoaded,
                   postLoadSucceeded, clicks>>

\* ---------------------------------------------------------------- host
\* One physics step of the playing world: the host calls the registered
\* callbacks, "observations" (added first) and then "sim_step".
PhysicsStep(fwd, done, obsOk) ==
    LET s1 == IF "observations" \in callbacks
              THEN _update_observations(session, obsOk) ELSE session
        r == IF "sim_step" \in callbacks
             THEN _on_stacking_physics_step([s |-> s1, pl |-> playing], fwd, done)
             ELSE [s |-> s1, pl |-> playing, result |-> "none"]
    IN
    /\ Quiet
    /\ playing
    /\ callbacks # {}
    /\ session' = r.s
    /\ playing' = r.pl
    /\ UNCHANGED logVars
    /\ lastStep' = [result |-> r.result, fwd |-> fwd, done |-> done,
                     executing |-> session._current_status = "Executing task..."]
    /\ UNCHANGED <<clicks, panelVars, postLoadSucceeded>>
    /\ UNCHANGED <<uiVars, callbacks, loadPc, resetPc, postLoadTasks, preResetTasks,
                   execTasks, groqTasks>>

\* ---------------------------------------------------------------- specification
Next ==
    \/ \E v \in Inputs : SetInput(v)
    \/ \E ok \in BOOLEAN, follow \in BOOLEAN : LoadClick(ok, follow)
    \/ PostLoadCallback
    \/ \E outcome \in PostLoadOutcomes, obsOk \in PoseQueryOutcomes : PostLoadAsync(outcome, obsOk)
    \/ ExecuteClick
    \/ \E i \in 1..Len(execTasks) : ExecBegin(i)
    \/ \E i \in 1..Len(execTasks), resetOk \in BOOLEAN : ExecChecks(i, resetOk)
    \/ \E i \in 1..Len(execTasks), ok \in BOOLEAN : ExecFinish(i, ok)
    \/ ResetClick
    \/ \E resetOk \in BOOLEAN : PreResetAsync(resetOk)
    \/ PostReset
    \/ ClearScene
    \/ SendMessage
    \/ \E fails \in BOOLEAN, chunks \in GroqStreams, received \in 0..MaxChunks :
          GroqResponse(fails, chunks, received)
    \/ ClearChat
    \/ \E v \in Inputs : PanelSetInput(v)
    \/ PanelSend
    \/ PanelExecute
    \/ PanelClearChat
    \/ \E status \in TaskStatuses, latest_entry \in LatestEntries : PanelRefresh(status, latest_entry)
    \/ post_load_button_event
    \/ post_reset_button_event
    \/ post_clear_button_event
    \/ \E ok \in BOOLEAN : SampleTaskEnds(ok)
    \/ \E fwd \in ForwardOutcomes, done \in BOOLEAN, obsOk \in PoseQueryOutcomes :
          PhysicsStep(fwd, done, obsOk)

Spec == Init /\ [][Next]_vars

\* ---------------------------------------------------------------- a panel in use
\* The same program, started either as constructed or from a state it is in
\* after some use: Clear Scene clicked UsedClears times in the UIBuilder panel
\* and the template's clear completed UsedPanelClears times for the
\* RoboCopilotUI panel, so that the chat histories are near the display limit.
UsedClears == 5
UsedPanelClears == 9

RECURSIVE Repeat(_, _)
Repeat(s, n) == IF n = 0 THEN <<>> ELSE s \o Repeat(s, n - 1)

InitUsed ==
    /\ chat_messages =
          Repeat(<< Msg("RoboCopilot", <<"Creating new empty stage...">>),
                    Msg("RoboCopilot", <<"Scene cleared successfully. Ready to load a new scene.">>) >>,
                 UsedClears)
    /\ current_prompt = <<>>
    /\ robocopilot_sample = None
    /\ world = None
    /\ _post_load_in_progress = FALSE
    /\ _scene_setup_successful = FALSE
    /\ prompt_input = InitialInput
    /\ scene_status_label = "Scene cleared"
    /\ status_label = "Ready"
    /\ execute_enabled = FALSE
    /\ reset_enabled = FALSE
    /\ chat_display = _update_chat_display(chat_messages)
    /\ session = NewSession
    /\ playing = FALSE
    /\ callbacks = {}
    /\ loadPc = "idle"
    /\ resetPc = "idle"
    /\ postLoadTasks = 0
    /\ preResetTasks = 0
    /\ execTasks = <<>>
    /\ groqTasks = <<>>
    /\ panel = Redrawn([NewPanel EXCEPT
                  !.chat_messages =
                      Repeat(<< Msg("RoboCopilot", <<"Scene cleared. Please load a scene to continue.">>) >>,
                             UsedPanelClears),
                  !.status_label = "Scene Cleared"])
    /\ sampleCalls = <<>>
    /\ panelLoaded = FALSE
    /\ panelTask = "none"
    /\ postLoadSucceeded = FALSE
    /\ clicks = 0
    /\ lastStep = NoStep
    /\ lists = << <<>> >>
    /\ log_ref = 1
    /\ log_entries = <<>>

\* The actions of Next, in runs of at most MaxUsedClicks user actions.
MaxUsedClicks == 2

Within == clicks' <= MaxUsedClicks

NextUsed ==
    \/ \E v \in Inputs :
          SetInput(v) /\ Within
    \/ \E ok \in BOOLEAN, follow \in BOOLEAN :
          LoadClick(ok, follow) /\ Within
    \/ PostLoadCallback /\ Within
    \/ \E outcome \in PostLoadOutcomes, obsOk \in PoseQueryOutcomes :
          PostLoadAsync(outcome, obsOk) /\ Within
    \/ ExecuteClick /\ Within
    \/ \E i \in 1..Len(execTasks) :
          ExecBegin(i) /\ Within
    \/ \E i \in 1..Len(execTasks), resetOk \in BOOLEAN :
          ExecChecks(i, resetOk) /\ Within
    \/ \E i \in 1..Len(execTasks), ok \in BOOLEAN :
          ExecFinish(i, ok) /\ Within
    \/ ResetClick /\ Within
    \/ \E resetOk \in BOOLEAN :
          PreResetAsync(resetOk) /\ Within
    \/ PostReset /\ Within
    \/ ClearScene /\ Within
    \/ SendMessage /\ Within
    \/ \E fails \in BOOLEAN, chunks \in GroqStreams, received \in 0..MaxChunks :
          GroqResponse(fails, chunks, received) /\ Within
    \/ ClearChat /\ Within
    \/ \E v \in Inputs :
          PanelSetInput(v) /\ Within
    \/ PanelSend /\ Within
    \/ PanelExecute /\ Within
    \/ PanelClearChat /\ Within
    \/ \E status \in TaskStatuses, latest_entry \in LatestEntries :
          PanelRefresh(status, latest_entry) /\ Within
    \/ post_load_button_event /\ Within
    \/ post_reset_button_event /\ Within
    \/ post_clear_button_event /\ Within
    \/ \E ok \in BOOLEAN :
          SampleTaskEnds(ok) /\ Within
    \/ \E fwd \in ForwardOutcomes, done \in BOOLEAN, obsOk \in PoseQueryOutcomes :
          PhysicsStep(fwd, done, obsOk) /\ Within

SpecUsed == (Init \/ InitUsed) /\ [][NextUsed]_vars

\* ---------------------------------------------------------------- the log as an object
\* The execution log is a Python list, an object that several references may
\* share.  lists holds the content of every list object allocated, log_ref is
\* the object self._execution_log refers to, and log_entries the objects that
\* callers of get_execution_log hold.
LogEntries == { <<"System reset">>, <<"Task completed">> }

\* A get_execution_log that returns the list itself.
get_execution_log_Alias(ls, ref) == [lists |-> ls, result |-> ref]

\* get_execution_log: self._execution_log.copy() allocates a list with the
\* same entries and returns it.
get_execution_log(ls, ref) == [lists |-> Append(ls, ls[ref]), result |-> Len(ls) + 1]

\* _log_message: self._execution_log.append(log_entry) changes the object
LogMessage(entry) ==
    /\ Len(lists[log_ref]) < MaxLogLen
    /\ lists' = [lists EXCEPT ![log_ref] = _log_message(@, entry)]
    /\ UNCHANGED <<log_ref, log_entries, appVars>>

\* clear_execution_log: self._execution_log = [] binds the attribute to a new
\* list; then _log_message("Execution log cleared")
ClearExecutionLog ==
    /\ Len(lists) < MaxLists
    /\ lists' = Append(lists, _log_message(<<>>, <<"Execution log cleared">>))
    /\ log_ref' = Len(lists) + 1
    /\ UNCHANGED <<log_entries, appVars>>

\* A caller calls get_execution_log and keeps the result.
GetExecutionLog ==
    LET r == get_execution_log(lists, log_ref) IN
    /\ Len(lists) < MaxLists
    /\ lists' = r.lists
    /\ log_entries' = Append(log_entries, r.result)
    /\ UNCHANGED <<log_ref, appVars>>

\* A caller appends to the k-th list it was given.
CallerAppends(k, entry) ==
    /\ k \in 1..Len(log_entries)
    /\ Len(lists[log_entries[k]]) < MaxLogLen
    /\ lists' = [lists EXCEPT ![log_entries[k]] = Append(@, entry)]
    /\ UNCHANGED <<log_ref, log_entries, appVars>>

\* A caller empties the k-th list it was given (list.clear()).
CallerClears(k) ==
    /\ k \in 1..Len(log_entries)
    /\ lists[log_entries[k]] # <<>>
    /\ lists' = [lists EXCEPT ![log_entries[k]] = <<>>]
    /\ UNCHANGED <<log_ref, log_entries, appVars>>

NextLog ==
    \/ \E entry \in LogEntries : LogMessage(entry)
    \/ ClearExecutionLog
    \/ GetExecutionLog
    \/ \E k \in 1..Len(log_entries), entry \in LogEntries : CallerAppends(k, entry)
    \/ \E k \in 1..Len(log_entries) : CallerClears(k)

SpecLog == Init /\ [][NextLog]_vars

\* ---------------------------------------------------------------- properties
Log == session._execution_log

InLog(entry) == \E i \in 1..Len(Log) : Log[i] = entry

InChat(text) == \E i \in 1..Len(chat_messages) : chat_messages[i].text = text

\* C1 (as stated): whenever _on_execute_task_async has just set the session
\* status to 'Executing task...' (it is between line 382 and line 384), the
\* session's controller and articulation controller are both non-null.
C1_ExecutingOnlyWithControllers ==
    \A i \in 1..Len(execTasks) :
        execTasks[i].pc = "entered" =>
            /\ session._controller # None
            /\ session._articulation_controller # None

C3_ClearedStaysReady ==
    scene_status_label = "Scene cleared" => status_label = "Ready"

\* C4 (as stated): after setup_pre_reset has run (the status it sets is
\* 'Reset completed'), controller and articulation controller are null.
C4_ResetClearsControllers ==
    session._current_status = "Reset completed" =>
        /\ session._controller = None
        /\ session._articulation_controller = None

\* C4 (amended): setup_pre_reset removes the 'sim_step' and 'observations'
\* callbacks and leaves the session's controller and articulation controller
\* as they were.
C4_ResetKeepsControllers ==
    [][ (\E resetOk \in BOOLEAN : PreResetAsync(resetOk)) =>
            /\ session'._controller = session._controller
            /\ session'._articulation_controller = session._articulation_controller
            /\ callbacks' \cap {"sim_step", "observations"} = {} ]_vars

\* A session reset after its controllers were set up: it still has them.
C4_Witness ==
    /\ robocopilot_sample # None
    /\ session._current_status = "Reset completed"
    /\ session._controller = Obj
    /\ session._articulation_controller = Obj
    /\ Log[Len(Log)] = <<"System reset">>

\* C5 (as stated): when a reset completes (_post_reset has run), the status
\* display reads 'Ready' and the Execute Task button is enabled.
C5_ResetReturnsToReady ==
    [][ PostReset => (status_label' = "Ready" /\ execute_enabled') ]_vars

\* C6 (as stated): when the sim_step callback runs during an execution, gets
\* past its guards, the controller returns actions and reports done, the
\* session status is 'Task completed' and the timeline is paused after that
\* step.
C6_DoneStepCompletes ==
    ( /\ lastStep.executing
      /\ lastStep.result \notin {"none", "skipped", "no_observations"}
      /\ lastStep.fwd = "actions"
      /\ lastStep.done )
    => (session._current_status = "Task completed" /\ ~playing)

\* C7: a physics step in which the sim_step callback raised ends with the
\* timeline paused, the session status 'Task failed' and the error entries
\* at the end of the execution log; the step completes (the host goes on).
C7_StepExceptionCaught ==
    lastStep.result = "raised" =>
        /\ ~playing
        /\ session._current_status = "Task failed"
        /\ Len(Log) >= Len(StepErrorLog)
        /\ SubSeq(Log, Len(Log) - Len(StepErrorLog) + 1, Len(Log)) = StepErrorLog

\* The callback raised during an execution.
C7_Witness ==
    /\ lastStep.result = "raised"
    /\ lastStep.executing
    /\ InLog(<<"Controller reset completed">>)

SceneSetupFailed == scene_status_label = "Scene setup failed: Failed to setup scene"

\* C8 (as stated): after a load whose scene construction failed, the status
\* display reads 'Ready' and the extension still references a session whose
\* log holds the error entry.
C8_FailedLoadKeepsLog ==
    SceneSetupFailed =>
        /\ status_label = "Ready"
        /\ robocopilot_sample # None
        /\ InLog(SceneError)

\* C8 (amended): after a load whose scene construction failed (the scene
\* display reads 'Scene setup failed: ...'), setup_scene has logged the error
\* entry in the log of the session it ran on, and UIBuilder references no
\* session: robocopilot_sample is None and _scene_setup_successful is False.
C8_FailedLoadDiscardsSession ==
    SceneSetupFailed =>
        /\ InLog(SceneError)
        /\ robocopilot_sample = None
        /\ ~_scene_setup_successful

\* A failed load.
C8_Witness ==
    /\ SceneSetupFailed
    /\ robocopilot_sample = None
    /\ Log[Len(Log)] = SceneError

AllSpaces(s) == \A i \in 1..Len(s) : s[i] = SPACE

\* p is s without its leading and trailing whitespace, and is not empty
IsTrimOf(p, s) ==
    /\ p # <<>>
    /\ p[1] # SPACE
    /\ p[Len(p)] # SPACE
    /\ \E a \in 0..Len(s) :
          /\ a + Len(p) <= Len(s)
          /\ AllSpaces(SubSeq(s, 1, a))
          /\ SubSeq(s, a + 1, a + Len(p)) = p
          /\ AllSpaces(SubSeq(s, a + Len(p) + 1, Len(s)))

\* The instruction an execute action must use for the value of the field
GoodPrompt(p, input) ==
    /\ p # <<>>
    /\ IF AllSpaces(input)
       THEN p = <<"Stack", SPACE, "the", SPACE, "cubes">>
       ELSE IsTrimOf(p, input)

\* C9: an execute action that starts a task uses the default instruction
\* when the field is empty or blank and the trimmed value of the field
\* otherwise; that instruction is never empty, it is stored as current_prompt
\* and it is the prompt given to _on_execute_task_async, in both panels.
C9_ExecuteInstruction ==
    [][ /\ Len(execTasks') > Len(execTasks) =>
              LET p == execTasks'[Len(execTasks')].prompt IN
              /\ GoodPrompt(p, prompt_input)
              /\ current_prompt' = p
        /\ \A i \in 1..Len(execTasks) :
              ( /\ i <= Len(execTasks')
                /\ execTasks[i].pc = "scheduled"
                /\ execTasks'[i].pc = "entered" )
              => (session'.prompt = execTasks[i].prompt /\ session'.prompt # <<>>)
        /\ \A k \in (Len(sampleCalls) + 1)..Len(sampleCalls') :
              sampleCalls'[k].fn = "_on_execute_task_async" =>
                  /\ GoodPrompt(sampleCalls'[k].arg, panel.prompt_input)
                  /\ panel'.current_prompt = sampleCalls'[k].arg
      ]_vars

\* A task running with the default instruction, started on a blank field.
C9_Witness ==
    /\ AllSpaces(prompt_input)
    /\ session._current_status = "Executing task..."
    /\ session.prompt = DefaultPrompt
    /\ current_prompt = DefaultPrompt

\* C10 (as stated): after Clear Scene the extension references no session.
C10_ClearDestroysSession ==
    scene_status_label = "Scene cleared" => robocopilot_sample = None

\* C10 (amended): Clear Scene keeps the session: it nulls the session's
\* controller and articulation controller, sets its status to 'Cleaned up'
\* and appends 'World cleanup completed' to its log, which is kept; a load
\* made while a session is referenced uses that session again, appending to
\* its log and leaving its status as it was.
C10_ClearKeepsSession ==
    [][ /\ (ClearScene /\ robocopilot_sample # None) =>
              /\ robocopilot_sample' = robocopilot_sample
              /\ session'._controller = None
              /\ session'._articulation_controller = None
              /\ session'._current_status = "Cleaned up"
              /\ session'._execution_log = Append(Log, <<"World cleanup completed">>)
        /\ ( /\ robocopilot_sample # None
             /\ \E ok \in BOOLEAN, follow \in BOOLEAN : LoadClick(ok, follow) ) =>
              /\ Len(session'._execution_log) > Len(Log)
              /\ SubSeq(session'._execution_log, 1, Len(Log)) = Log
              /\ session'._current_status = session._current_status
      ]_vars

\* A scene loaded again after Clear Scene: the log goes on after the cleanup.
C10_Witness ==
    /\ robocopilot_sample # None
    /\ InChat(<<"Scene cleared successfully. Ready to load a new scene.">>)
    /\ session._current_status = "Cleaned up"
    /\ \E i \in 1..(Len(Log) - 1) :
          /\ Log[i] = <<"World cleanup completed">>
          /\ Log[i + 1] = <<"Starting custom scene setup...">>

IsPrefix(a, b) == Len(a) <= Len(b) /\ SubSeq(b, 1, Len(a)) = a

\* A _setup_post_load_async in which setup_post_load returned False.
FailedPostLoad ==
    /\ \E outcome \in PostLoadOutcomes, obsOk \in PoseQueryOutcomes : PostLoadAsync(outcome, obsOk)
    /\ scene_status_label' = "Controller setup failed: Failed to setup controllers"

\* A step that runs world_cleanup on the referenced session: Clear Scene, or
\* a post-load whose controller setup failed.
CleanupStep ==
    \/ ClearScene /\ robocopilot_sample # None
    \/ FailedPostLoad

\* A load that creates a session (none was referenced): the log it writes is
\* the log of a new object.
CreatingLoad ==
    /\ robocopilot_sample = None
    /\ \E ok \in BOOLEAN, follow \in BOOLEAN : LoadClick(ok, follow)

\* C11 (as stated): world_cleanup clears the execution log: after it the log
\* holds no entry written before the cleanup (at most the cleanup's own
\* 'World cleanup completed').
C11_CleanupClearsLog ==
    [][ CleanupStep => Log' \in { <<>>, << <<"World cleanup completed">> >> } ]_vars

\* C11 (amended): the execution log of a session is append-only except for
\* clear_execution_log (Clear Chat), which replaces it by the single entry
\* 'Execution log cleared'.  Every other step leaves the entries of the
\* session's log unchanged and in order as a prefix of the log; world_cleanup
\* does not clear the log, it appends 'World cleanup completed' to it.  A
\* session created by a load starts its own log from empty.
C11_LogAppendOnlyButClearChat ==
    [][ /\ (ClearChat /\ robocopilot_sample # None) =>
              Log' = << <<"Execution log cleared">> >>
        /\ CreatingLoad => Log' \in {SceneLogOk, SceneLogFail}
        /\ ( ~(ClearChat /\ robocopilot_sample # None) /\ ~CreatingLoad ) =>
              IsPrefix(Log, Log')
        /\ CleanupStep =>
              /\ Len(Log') > Len(Log)
              /\ Log'[Len(Log')] = <<"World cleanup completed">>
      ]_vars

\* The log of a session after the cleanup of a failed controller setup: the
\* entries of the scene setup and of the failure are still in it.
C11_Witness ==
    /\ session._current_status = "Cleaned up"
    /\ Log[Len(Log)] = <<"World cleanup completed">>
    /\ Log[1] = <<"Starting custom scene setup...">>
    /\ InLog(<<"Error setting up stacking controller: ">>)

\* C12: get_execution_log returns a copy of the log.  The list returned holds
\* the entries the log has at the call; a change a caller makes to a list it
\* was given never changes the session's log; and an entry logged, or a clear
\* of the log, after the call never changes a list returned earlier.
C12_GetLogReturnsCopy ==
    [][ /\ GetExecutionLog =>
              /\ lists'[log_entries'[Len(log_entries')]] = lists[log_ref]
              /\ lists'[log_ref'] = lists[log_ref]
        /\ ( \E k \in 1..Len(log_entries) :
                \/ CallerClears(k)
                \/ \E entry \in LogEntries : CallerAppends(k, entry) ) =>
              lists'[log_ref'] = lists[log_ref]
        /\ ( ClearExecutionLog \/ \E entry \in LogEntries : LogMessage(entry) ) =>
              \A k \in 1..Len(log_entries) :
                  lists'[log_entries[k]] = lists[log_entries[k]]
      ]_vars

\* A copy taken when the log had one entry; the log has two entries now, and
\* another copy was emptied by its caller.
C12_Witness ==
    /\ Len(lists[log_ref]) = 2
    /\ \E k \in 1..Len(log_entries) :
          /\ Len(lists[log_entries[k]]) = 1
          /\ lists[log_entries[k]][1] = lists[log_ref][1]
    /\ \E k \in 1..Len(log_entries) : lists[log_entries[k]] = <<>>

ClearedNotice == Msg("RoboCopilot", <<"Chat history cleared. Ready for new commands!">>)

\* C13 (as stated): the chat history of each panel is append-only and its
\* messages are immutable: every step leaves the stored messages, with their
\* sender and text, as a prefix of the history.
C13_ChatAppendOnly ==
    [][ /\ IsPrefix(chat_messages, chat_messages')
        /\ IsPrefix(panel.chat_messages, panel'.chat_messages) ]_vars

\* C13 (amended): Clear Chat removes every stored message of its panel and
\* leaves the single notice 'Chat history cleared...'; every other step leaves
\* the stored messages, with sender and text, as a prefix of the history.
\* Inside _get_groq_response the text of one message is rewritten: the
\* message that call has appended with an empty text; however many chunks
\* have been received, the messages stored before the call are unchanged and
\* the rewritten message keeps its sender.
C13_ChatAppendOnlyButClearAndStream ==
    [][ /\ ClearChat => chat_messages' = <<ClearedNotice>>
        /\ PanelClearChat => panel'.chat_messages = <<ClearedNotice>>
        /\ ~ClearChat => IsPrefix(chat_messages, chat_messages')
        /\ ~PanelClearChat => IsPrefix(panel.chat_messages, panel'.chat_messages)
        /\ \A chunks \in GroqStreams, received \in 0..MaxChunks :
              received <= Len(chunks) =>
                  LET before == Robo(chat_messages, <<>>)
                      after == StreamInto(before, SubSeq(chunks, 1, received), <<>>)
                  IN /\ Len(after) = Len(before)
                     /\ SubSeq(after, 1, Len(chat_messages)) = chat_messages
                     /\ after[Len(after)].sender = "RoboCopilot"
      ]_vars

\* A history cleared and grown again: the notice, the message sent, and the
\* streamed answer.
C13_Witness ==
    /\ Len(chat_messages) = 3
    /\ chat_messages[1] = ClearedNotice
    /\ chat_messages[2] = Msg("User", InitialInput)
    /\ chat_messages[3] = Msg("RoboCopilot", <<"Sure", "!">>)

Min(a, b) == IF a < b THEN a ELSE b

\* display shows exactly the last min(10, n) of the n messages msgs, in
\* order; welcome alone when there is none.  Each item carries the text of
\* its message and a header that names its sender.
ShowsMostRecent(display, msgs, welcome, userIcon) ==
    IF Len(msgs) = 0
    THEN display = << Item(<<>>, welcome) >>
    ELSE /\ Len(display) = Min(10, Len(msgs))
         /\ \A i \in 1..Len(display) :
               LET m == msgs[Len(msgs) - Len(display) + i] IN
               /\ display[i].text = m.text
               /\ display[i].label[1] = (IF m.sender = "User" THEN userIcon ELSE "RoboCopilot")

\* C14: in both panels the chat display always shows exactly the most recent
\* min(10, n) of the n stored chat messages, in append order, and the welcome
\* text alone when no message is stored; the stored history is not cut to
\* the ten shown (n may exceed ten).
C14_DisplayShowsMostRecent ==
    /\ ShowsMostRecent(chat_display, chat_messages, UIWelcome, "User")
    /\ ShowsMostRecent(panel.chat_display, panel.chat_messages, PanelWelcome, "You")

\* Both panels hold more than ten messages, the last one from the user; the
\* displays show ten.
C14_Witness ==
    /\ Len(chat_messages) > 10
    /\ Len(panel.chat_messages) > 10
    /\ Len(chat_display) = 10
    /\ Len(panel.chat_display) = 10
    /\ panel.chat_display[9].label = <<"You">>

\* C15: when a streamed response runs, whatever user actions and coroutines
\* have run since the message was sent, the assistant message created for it
\* is appended after the messages stored at that moment and is the last
\* message after every chunk; after k chunks its text is the contents of
\* those k chunks in order, and every other message is as it was.  When the
\* stream ends the history is the earlier messages and that message; when the
\* iteration raises after some chunks, the error message follows it.
C15_StreamAppendsToOwnMessage ==
    [][ \A chunks \in GroqStreams, received \in 0..MaxChunks :
          (groqTasks # <<>> /\ received <= Len(chunks) /\ GroqResponse(FALSE, chunks, received)) =>
              LET n == Len(chat_messages)
                  own == Msg("RoboCopilot", FullResponse(SubSeq(chunks, 1, received)))
              IN /\ \A k \in 0..received :
                        StreamInto(Robo(chat_messages, <<>>), SubSeq(chunks, 1, k), <<>>)
                          = Append(chat_messages,
                                   Msg("RoboCopilot", FullResponse(SubSeq(chunks, 1, k))))
                 /\ SubSeq(chat_messages', 1, n) = chat_messages
                 /\ Len(chat_messages') > n
                 /\ chat_messages'[n + 1] = own
                 /\ IF received = Len(chunks)
                    THEN Len(chat_messages') = n + 1
                    ELSE /\ Len(chat_messages') = n + 2
                         /\ chat_messages'[n + 2].text = <<"Error getting AI response: ">>
      ]_vars

\* A response streamed after a Clear Scene that came between the send and the
\* response: the answer is the last message, after the messages of the clear.
C15_Witness ==
    /\ Len(chat_messages) = 4
    /\ chat_messages[1].sender = "User"
    /\ chat_messages[3].text = <<"Scene cleared successfully. Ready to load a new scene.">>
    /\ chat_messages[4] = Msg("RoboCopilot", <<"Sure", "!">>)
    /\ current_prompt = chat_messages[1].text

\* C16 (as stated): when the controller setup of a post-load fails,
\* setup_post_load has logged the error, the scene display reads 'Controller
\* setup failed: ...', the session's controller and articulation controller
\* are null, and the Execute Task button is not enabled.
C16_FailedPostLoadDisablesExecute ==
    [][ FailedPostLoad =>
            /\ \E i \in (Len(Log) + 1)..Len(Log') :
                  Log'[i] = <<"Error setting up stacking controller: ">>
            /\ session'._controller = None
            /\ session'._articulation_controller = None
            /\ ~execute_enabled' ]_vars

\* A step of the UIBuilder panel in which the start of a task fails inside
\* _on_execute_task_async: the checks of lines 384-391 fail, or play_async
\* raises for a task of the session referenced.
TaskStartFails ==
    \/ \E i \in 1..Len(execTasks), resetOk \in BOOLEAN :
          ExecChecks(i, resetOk) /\ Len(execTasks') < Len(execTasks)
    \/ \E i \in 1..Len(execTasks) : ExecFinish(i, FALSE) /\ ~execTasks[i].stale

\* C17 (as stated): a failure while starting a task is caught in both
\* panels.  In the UIBuilder panel the session status becomes 'Task failed',
\* the error entry ends the execution log and the status display reads 'Task
\* Failed'; in the RoboCopilotUI panel, when the coroutine it scheduled
\* raises, the status display shows a failed state.
C17_TaskStartFailureShown ==
    [][ /\ TaskStartFails =>
              /\ session'._current_status = "Task failed"
              /\ Log'[Len(Log')] = <<"Error executing stacking task: ">>
              /\ status_label' = "Task Failed"
        /\ SampleTaskEnds(FALSE) =>
              panel'.status_label \in {"Task Failed", "Task failed"}
      ]_vars

Executing == session._current_status = "Executing task..."

\* The status of the session referenced stops being 'Executing task...'.
LeavesExecuting == Executing /\ session'._current_status # "Executing task..."

\* A physics step in which the sim_step callback raised or the controller
\* reported done.
StepEndsTask == lastStep'.result \in {"raised", "completed"}

ExecuteStep ==
    \E i \in 1..Len(execTasks) :
        \/ ExecBegin(i)
        \/ \E b \in BOOLEAN : ExecChecks(i, b) \/ ExecFinish(i, b)

\* C18 (as stated): the status leaves 'Executing task...' only in a physics
\* step in which the callback raises or the controller reports done, in a
\* reset, in a clear (Clear Scene, Clear Chat) or in the course of an execute
\* action (a load that creates a new session object is not counted).
C18_ExecutingUntilResetClearExecute ==
    [][ LeavesExecuting =>
            \/ StepEndsTask
            \/ \E resetOk \in BOOLEAN : PreResetAsync(resetOk)
            \/ ClearScene
            \/ ClearChat
            \/ ExecuteStep
            \/ CreatingLoad ]_vars

\* C18 (amended): there is no timer and no cancellation.  The status of a
\* session leaves 'Executing task...' only in: a physics step in which the
\* callback raises ('Task failed') or the controller reports done ('Task
\* completed'); the failure of the task start itself ('Task failed');
\* setup_pre_reset ('Reset completed'); world_cleanup, run by Clear Scene or
\* by a failed controller setup of a later load ('Cleaned up'); and the
\* successful controller setup of a later load ('Ready for execution').  No
\* other step changes it: not Clear Chat, not a send, not the end of
\* play_async.
C18_ExecutingUntilEndResetCleanupLoad ==
    [][ (LeavesExecuting /\ ~CreatingLoad) =>
            \/ StepEndsTask
               /\ session'._current_status \in {"Task failed", "Task completed"}
            \/ TaskStartFails
               /\ session'._current_status = "Task failed"
            \/ (\E resetOk \in BOOLEAN : PreResetAsync(resetOk))
               /\ session'._current_status = "Reset completed"
            \/ CleanupStep
               /\ session'._current_status = "Cleaned up"
            \/ (\E outcome \in PostLoadOutcomes, obsOk \in PoseQueryOutcomes : PostLoadAsync(outcome, obsOk))
               /\ session'._current_status = "Ready for execution" ]_vars

\* A task started and left running: play_async has returned, the coroutine
\* has ended, a message was sent and answered since, and the status still
\* reads 'Executing task...'.
C18_Witness ==
    /\ Executing
    /\ execTasks = <<>>
    /\ playing
    /\ "sim_step" \in callbacks
    /\ chat_messages[Len(chat_messages)].text = <<"Sure", "!">>

\* C19 (as stated): at any time at most one _setup_post_load_async is
\* scheduled or running.
C19_AtMostOnePostLoad == postLoadTasks <= 1

\* C20 (as stated): while a task is executing (the session status is
\* 'Executing task...', the timeline is playing and the sim_step callback is
\* registered), the Execute Task button of the UIBuilder panel is disabled.
C20_ExecuteDisabledWhileExecuting ==
    (Executing /\ playing /\ "sim_step" \in callbacks) => ~execute_enabled

\* ---------------------------------------------------------------- C21
\* The scene of the UIBuilder panel is loaded: it references a world and a
\* session.
SceneLoaded == world # None /\ robocopilot_sample # None

\* C21 (as stated): whenever the Execute Task button of the UIBuilder panel
\* is enabled, the scene is loaded and the session's controller is not null.
C21_ExecuteEnabledOnlyWithController ==
    execute_enabled => (SceneLoaded /\ session._controller # None)

\* ---------------------------------------------------------------- C22
\* C22 (as stated): the status display of the UIBuilder panel reads 'Task
\* Completed' only when the session status is 'Task completed', and it reads
\* 'Task Failed' whenever the session status is 'Task failed'.
C22_StatusDisplayAgreesWithSession ==
    /\ status_label = "Task Completed" => session._current_status = "Task completed"
    /\ session._current_status = "Task failed" => status_label = "Task Failed"

\* ---------------------------------------------------------------- C23
\* The colours of the cubes setup_scene creates (cube_red, cube_green).
CubeColors == {"red", "green"}

\* C23 (as stated): a physics step taken while a task is executing with a
\* prompt whose first colour word is the colour of a cube, in which the
\* sim_step callback gets past its guards and the controller returns
\* actions, reads the observation of that cube, applies the actions and does
\* not end in 'Task failed'.
C23_StepPicksNamedCube ==
    ( /\ lastStep.executing
      /\ lastStep.result \notin {"none", "skipped", "no_observations"}
      /\ lastStep.fwd = "actions"
      /\ extract_colors_simple(session.prompt)[1] \in CubeColors )
    => ( /\ lastStep.result \in {"applied", "completed"}
         /\ session._current_status # "Task failed" )

\* ---------------------------------------------------------------- C24
\* A step in which _on_execute_task_async passes its checks and calls
\* add_physics_callback("sim_step", ...) (line 395).
RegistersSimStep ==
    \E i \in 1..Len(execTasks) :
        ExecChecks(i, TRUE) /\ Len(execTasks') = Len(execTasks)

\* C24 (as stated): _on_execute_task_async adds the 'sim_step' callback only
\* when no 'sim_step' callback is registered.
C24_SimStepAddedOnlyWhenAbsent ==
    [][ RegistersSimStep => "sim_step" \notin callbacks ]_vars

\* ---------------------------------------------------------------- C25
\* C25 (as stated): whenever the 'sim_step' callback is registered, the
\* 'observations' callback is registered too.
C25_SimStepWithObservations ==
    "sim_step" \in callbacks => "observations" \in callbacks

\* ---------------------------------------------------------------- C26
\* C26 (as stated): when the post-reset callback runs, no setup_pre_reset
\* coroutine started by _pre_reset is still waiting to run: its removal of
\* the callbacks and its controller reset are complete.
C26_PreResetBeforePostReset ==
    [][ PostReset => preResetTasks = 0 ]_vars

\* ---------------------------------------------------------------- C27
SkippedNotice == Msg("RoboCopilot", <<"Scene setup was not successful, skipping post-load...">>)

\* C27: a Load Scene whose scene setup fails leaves the panel without a
\* session reference and with _scene_setup_successful false; a post-load
\* callback that follows it (the only post-load callbacks that find no
\* session reference) is skipped with the notice of the first check: it
\* schedules no controller setup and leaves _post_load_in_progress as it was.
C27_FailedSceneSetupSkipsPostLoad ==
    [][ /\ \A follow \in BOOLEAN :
              LoadClick(FALSE, follow) =>
                  /\ robocopilot_sample' = None
                  /\ ~_scene_setup_successful'
                  /\ SceneSetupFailed'
        /\ (PostLoadCallback /\ robocopilot_sample = None) =>
              /\ ~_scene_setup_successful
              /\ postLoadTasks' = postLoadTasks
              /\ _post_load_in_progress' = _post_load_in_progress
              /\ chat_messages' = Append(chat_messages, SkippedNotice) ]_vars

\* A post-load callback has been skipped after a failed scene setup that
\* followed a successful load.
C27_Witness ==
    /\ SceneSetupFailed
    /\ robocopilot_sample = None
    /\ loadPc = "idle"
    /\ postLoadSucceeded
    /\ chat_messages # <<>>
    /\ chat_messages[Len(chat_messages)] = SkippedNotice

\* ---------------------------------------------------------------- C28
\* In the UIBuilder panel the message p was sent last, its response has been
\* received whole and nothing was done since: the chat ends with p and the
\* response, the input field is as the send left it and current_prompt is p.
SentAndAnswered(p) ==
    /\ groqTasks = <<>>
    /\ prompt_input = <<>>
    /\ current_prompt = p
    /\ Len(chat_messages) >= 2
    /\ chat_messages[Len(chat_messages) - 1] = Msg("User", p)
    /\ \E chunks \in GroqStreams :
          chat_messages[Len(chat_messages)] = Msg("RoboCopilot", FullResponse(chunks))

\* The same in the RoboCopilotUI panel, whose send answers in the handler
\* and leaves the input field as it is.
PanelSentAndAnswered(p) ==
    /\ Strip(panel.prompt_input) = p
    /\ panel.current_prompt = p
    /\ Len(panel.chat_messages) >= 2
    /\ panel.chat_messages[Len(panel.chat_messages) - 1] = Msg("User", p)
    /\ panel.chat_messages[Len(panel.chat_messages)].text[1] = "Command received: '"

\* An execute click in the UIBuilder panel, on a loaded scene, after p was
\* sent and answered, schedules the task with prompt p.
UIExecuteRunsSentPrompt ==
    \A p \in {current_prompt} :
        (p # <<>> /\ SentAndAnswered(p) /\ SceneLoaded /\ ExecuteClick) =>
            /\ Len(execTasks') = Len(execTasks) + 1
            /\ execTasks'[Len(execTasks')].prompt = p

\* An execute click in the RoboCopilotUI panel after p was sent and answered
\* calls the sample's _on_execute_task_async with p.
PanelExecuteRunsSentPrompt ==
    \A p \in {panel.current_prompt} :
        (p # <<>> /\ PanelSentAndAnswered(p) /\ PanelExecute) =>
            \E i \in (Len(sampleCalls) + 1)..Len(sampleCalls') :
                sampleCalls'[i] = Call("_on_execute_task_async", p)

\* C28 (as stated): after a non-empty message p was sent and its response
\* received, an execute action made without editing the input field runs
\* the task with prompt p, in both panels.
C28_ExecuteRunsSentPrompt ==
    [][ UIExecuteRunsSentPrompt /\ PanelExecuteRunsSentPrompt ]_vars

\* ---------------------------------------------------------------- C29
\* The loop runs the oldest scheduled _get_groq_response.
GroqStep ==
    \E fails \in BOOLEAN, chunks \in GroqStreams, received \in 0..MaxChunks :
        GroqResponse(fails, chunks, received)

\* A coroutine that is between two statements of its body goes on.
ChecksStep ==
    \E i \in 1..Len(execTasks), resetOk \in BOOLEAN : ExecChecks(i, resetOk)

\* The event loop keeps running: a coroutine started with ensure_future is
\* run, and running code runs on.
LoopRuns == WF_vars(GroqStep) /\ WF_vars(ChecksStep)

\* The program from construction, in runs of at most MaxUsedClicks user
\* actions, with the loop running.
SpecLive == Init /\ [][NextUsed]_vars /\ LoopRuns

\* The messages a step appends to the chat history: those after the ones
\* that were there.
Appended == SubSeq(chat_messages', Len(chat_messages) + 1, Len(chat_messages'))

\* C29: every request started by a send is eventually run; the run appends
\* at least one assistant message to the chat history, the response or an
\* 'Error getting AI response' message; a send step appends the user's
\* message and starts one request, and no step taken with a blank field
\* is a send or starts a request.
C29_SentMessageAnswered ==
    /\ (groqTasks # <<>>) ~> (groqTasks = <<>>)
    /\ [][ GroqStep =>
              /\ Len(groqTasks') = Len(groqTasks) - 1
              /\ IsPrefix(chat_messages, chat_messages')
              /\ Appended # <<>>
              /\ \A i \in 1..Len(Appended) : Appended[i].sender = "RoboCopilot"
              /\ \/ Appended[Len(Appended)].text = <<"Error getting AI response: ">>
                 \/ \E chunks \in GroqStreams :
                       Appended = << Msg("RoboCopilot", FullResponse(chunks)) >> ]_vars
    /\ [][ /\ SendMessage =>
                 /\ Appended = << Msg("User", Strip(prompt_input)) >>
                 /\ groqTasks' = Append(groqTasks, Strip(prompt_input))
           /\ AllSpaces(prompt_input) =>
                 /\ Len(groqTasks') <= Len(groqTasks)
                 /\ ~SendMessage ]_vars

\* A message was sent after another action and the request failed: the
\* error message follows it in the history.
C29_Witness ==
    /\ groqTasks = <<>>
    /\ Len(chat_messages) >= 3
    /\ chat_messages[Len(chat_messages) - 1].sender = "User"
    /\ chat_messages[Len(chat_messages)] = Msg("RoboCopilot", <<"Error getting AI response: ">>)


\* ---------------------------------------------------------------- C30
\* C30: after a Clear Chat of the UIBuilder panel the chat history holds
\* exactly the 'Chat history cleared' notice and, when the panel references
\* a session, the session's execution log holds exactly the single entry
\* 'Execution log cleared'; after a Clear Chat of the RoboCopilotUI panel its
\* chat history holds exactly the notice and the step has called
\* clear_execution_log of its sample, once.
C30_ClearChatLeavesOnlyNotices ==
    [][ /\ ClearChat =>
             /\ chat_messages' = << ClearedNotice >>
             /\ robocopilot_sample # None =>
                   session'._execution_log = << <<"Execution log cleared">> >>
        /\ PanelClearChat =>
             /\ panel'.chat_messages = << ClearedNotice >>
             /\ sampleCalls' = Append(sampleCalls, Call("clear_execution_log", <<>>)) ]_vars

\* Both panels were cleared after a load: each chat history holds only the
\* notice and the log of the loaded session holds only its clear entry.
C30_Witness ==
    /\ robocopilot_sample # None
    /\ chat_messages = << ClearedNotice >>
    /\ session._execution_log = << <<"Execution log cleared">> >>
    /\ panel.chat_messages = << ClearedNotice >>
    /\ sampleCalls # <<>>
    /\ sampleCalls[Len(sampleCalls)] = Call("clear_execution_log", <<>>)

====
